---- MODULE Spec2Model ----
(***************************************************************************)
(* cutlery: fork() / Child::{id, wait, try_wait, kill} over two backends.  *)
(*                                                                         *)
(* The model holds one original process (the caller of fork), the process  *)
(* that fork creates, the kernel's view of that process, and the Child     *)
(* handle the original process owns.  The kernel is modelled by what the   *)
(* system calls used in src/impl/unix.rs and src/impl/win.rs return in     *)
(* each kernel state; the Rust code is modelled by what it does with       *)
(* those returns.                                                          *)
(***************************************************************************)
EXTENDS Integers, Sequences, FiniteSets, TLC

VARIABLES
    cfg,          \* build/target: "pidfd" (unix + feature pidfd), "pid" (unix), "win"
    flows,        \* what each control flow observed as the result of fork()
    children,     \* the live Child values owned by the original process
    proc,         \* kernel state of the process created by fork()
    decoy,        \* kernel state of an unrelated process that reuses the pid
    op,           \* "idle", or "wait" while Child::wait is inside its blocking call
    eintr,        \* interruptions of the blocking call in the current wait()
    ncalls,       \* OS calls issued by the current / the last Child operation
    pidcalls,     \* PID-keyed OS calls issued by the current / the last operation
    ret,          \* what the last finished Child operation returned
    atCall,       \* Child.status at the moment the current / last operation was called
    seen,         \* proc.state at the moment of the last operation's final OS call
    sysErr,       \* errno of the last operation's final OS call ("": it succeeded)
    forced,       \* a kill() that returned success was issued while the process ran
    waited,       \* the value the first successful wait() returned (<<>>: none yet)
    later,        \* the current / last wait() was called after a wait() had returned
    first,        \* the first status a wait() or try_wait() returned (<<>>: none yet)
    handles,      \* win: attributes of each handle in the original process's handle table
    chandles,     \* win: attributes of each handle in the new process's handle table
    pre,          \* win: the original process's handle table as it was before fork()
    snap,         \* win: the snapshot fork() took of the handle table (<<>>: none)
    buf,          \* win: entries the snapshot buffer can hold
    qstatus,      \* win: NTSTATUS of the last handle-table query ("": none yet)
    fpc,          \* win: where fork() is: "start", "query", "create", "done"
    dropped,      \* the Child values the original process has dropped
    closes,       \* times a Child's descriptor has been closed
    via,          \* how the original process forks: "fork" or "fork_fn"
    fran,         \* fork_fn: times each control flow has run the closure f
    fres,         \* fork_fn: how the run of f ended ("none": it has not run)
    fnret,        \* fork_fn: the control flows fork_fn has returned to
    perm,         \* unix: the original process is allowed to signal the new process
    postmortem    \* a kill() was called, with the status absent, on a process that
                  \* had finished without having been killed through the handle

vars == <<cfg, flows, children, proc, decoy, op, eintr, ncalls, pidcalls, ret,
          atCall, seen, sysErr, forced, waited, later, first,
          handles, chandles, pre, snap, buf, qstatus, fpc, dropped, closes,
          via, fran, fres, fnret, perm, postmortem>>

\* The state of fork_fn().
fnVars == <<via, fran, fres, fnret>>

\* The record of dropped handles.
dropVars == <<dropped, closes>>

\* The state of the cloned-process fork().
winVars == <<handles, chandles, pre, snap, buf, qstatus, fpc>>

(***************************************************************************)
(* Bounds of the model.                                                    *)
(***************************************************************************)
MaxEintr == 2        \* interruptions of one blocking status query
MaxPid   == 2        \* process ids the kernel hands out: 1..MaxPid
BufEntries == 2      \* handle entries the initial snapshot buffer (0x800 bytes) holds

PidSet == 1..MaxPid

(***************************************************************************)
(* Values.  Option<i32> is a sequence: <<>> is None, <<v>> is Some(v).     *)
(***************************************************************************)
None    == <<>>
Some(v) == <<v>>

Backends == {"pidfd", "pid", "win"}
IsUnix   == cfg \in {"pidfd", "pid"}

\* io::Result values.  val carries the Ok payload as an Option-like sequence
\* (i32 -> <<v>>, () -> <<>>, Option<i32> as is); err the OS error of an Err.
Ok(v)    == [tag |-> "Ok",  val |-> v,    err |-> ""]
Err(e)   == [tag |-> "Err", val |-> <<>>, err |-> e]

\* Exit codes a process passes to exit(), signals that can terminate it.
ExitCodes   == {0, 1, 9, 42, 255}
TermSignals == {9, 11, 15}
CoreSignals == {11}          \* signals whose default action dumps core
\* A u32 exit code of the cloned-process side, as bit 31 and bits 0..30.
U32(hi, lo)  == [hi |-> hi, lo |-> lo]
WinExitCodes == {U32(0, 0), U32(0, 1), U32(0, 42), U32(1, 1073741829)}

SIGKILL == 9
WNOHANG == 1
TERMINATE_CODE == 1

\* How a process ended: val is the exit code or signal number of the
\* native-fork side, code the u32 exit code of the cloned-process side.
NoTerm        == [how |-> "none",   val |-> 0,    code |-> U32(0, 0)]
Exited(code)  == [how |-> "exit",   val |-> code, code |-> U32(0, 0)]
Signaled(sig) == [how |-> "signal", val |-> sig,  code |-> U32(0, 0)]
WinExited(u)  == [how |-> "exit",   val |-> 0,    code |-> u]

(***************************************************************************)
(* The kernel, native-fork side: how a terminated process is reported.     *)
(***************************************************************************)
\* The wait status word waitpid() stores: exit code in bits 8..15, the
\* terminating signal in bits 0..6, bit 7 set when core was dumped.
W_STATUS(term) ==
    IF term.how = "exit" THEN (term.val % 256) * 256
    ELSE term.val + (IF term.val \in CoreSignals THEN 128 ELSE 0)

\* The siginfo_t fields waitid() fills in: CLD_EXITED, CLD_KILLED, CLD_DUMPED.
SI_CODE(term) ==
    IF term.how = "exit" THEN 1
    ELSE IF term.val \in CoreSignals THEN 3 ELSE 2
SI_STATUS(term) == IF term.how = "exit" THEN term.val % 256 ELSE term.val

\* The exit code read without shifting the status word.
WEXITSTATUS_unshifted(s) == s % 256

\* libc's decoding macros.
WIFEXITED(s)   == (s % 128) = 0
WEXITSTATUS(s) == (s \div 256) % 256
WTERMSIG(s)    == s % 128
WIFSIGNALED(s) == LET t == ((s % 128) + 1) % 256          \* as i8
                      i == IF t >= 128 THEN t - 256 ELSE t
                  IN  i >= 2                                \* (i >> 1) > 0

\* Who holds a pid right now, and which process a PID-keyed wait can collect.
Exists(p)  == p.state \in {"running", "dying", "zombie"}
PidHolder(pid) ==
    IF Exists(proc) /\ proc.pid = pid THEN "proc"
    ELSE IF Exists(decoy) /\ decoy.pid = pid THEN "decoy"
    ELSE "nobody"
WaitTarget(pid) ==
    IF PidHolder(pid) = "proc" THEN "proc"
    ELSE IF PidHolder(pid) = "decoy" /\ decoy.isChild THEN "decoy"
    ELSE "nobody"
Kproc(who) == IF who = "decoy" THEN decoy ELSE proc

\* The shape of one completed system call.
Sys(r, e, who) ==
    [ret |-> r, errno |-> e, wstatus |-> 0, si_code |-> 0, si_status |-> 0,
     who |-> who, reaps |-> FALSE, pidkeyed |-> FALSE]

UsesDescriptor_never(c) == FALSE

UsesDescriptor(c) == cfg = "pidfd" /\ c.descriptor # None

\* The process a status query of handle c is about.
QueryTarget(c) == IF UsesDescriptor(c) THEN
                      (IF proc.state = "gone" THEN "nobody" ELSE "proc")
                  ELSE WaitTarget(c.pid)

\* A blocking query (FLAGS = 0) does not complete while its target runs.
QueryBlocks(c, flags) ==
    /\ flags # WNOHANG
    /\ QueryTarget(c) # "nobody"
    /\ Kproc(QueryTarget(c)).state # "zombie"

\* waitid(P_PIDFD, fd, &info, WEXITED | FLAGS): what a completed call returns.
waitid(c, flags) ==
    LET who == QueryTarget(c) IN
    IF who = "nobody" THEN Sys(-1, "ECHILD", who)
    ELSE IF Kproc(who).state = "zombie"
    THEN [Sys(0, "", who) EXCEPT !.si_code = SI_CODE(Kproc(who).term),
                                 !.si_status = SI_STATUS(Kproc(who).term),
                                 !.reaps = TRUE]
    ELSE Sys(0, "", who)

\* waitpid(pid, &status, FLAGS): what a completed call returns.
waitpid(c, flags) ==
    LET who == QueryTarget(c) IN
    IF who = "nobody" THEN [Sys(-1, "ECHILD", who) EXCEPT !.pidkeyed = TRUE]
    ELSE IF Kproc(who).state = "zombie"
    THEN [Sys(c.pid, "", who) EXCEPT !.wstatus = W_STATUS(Kproc(who).term),
                                     !.reaps = TRUE, !.pidkeyed = TRUE]
    ELSE [Sys(0, "", who) EXCEPT !.pidkeyed = TRUE]

\* The kernel after a completed status query: a collected process is gone.
Reaped(k) ==
    /\ proc'  = IF k.reaps /\ k.who = "proc"  THEN [proc  EXCEPT !.state = "gone"] ELSE proc
    /\ decoy' = IF k.reaps /\ k.who = "decoy" THEN [decoy EXCEPT !.state = "gone"] ELSE decoy

(***************************************************************************)
(* src/impl/unix.rs                                                        *)
(***************************************************************************)
\* cvt without the -1 test.
cvt_unchecked(t, errno) == Ok(Some(t))

cvt(t, errno) == IF t = -1 THEN Err(errno) ELSE Ok(Some(t))

\* An interruption treated like any other error.
is_interrupted_never(e) == FALSE

is_interrupted(e) == e = "EINTR"

\* cvt in place of cvt_r: no retry.
cvt_r_once(r) == "return"

\* cvt_r: a call that failed with an interruption is issued again.
cvt_r(r) == IF r.tag = "Err" /\ is_interrupted(r.err) THEN "retry" ELSE "return"

\* wait_impl::<FLAGS>, given the completed call k (after cvt_r's retries).
wait_impl(c, flags, k) ==
    IF UsesDescriptor(c) THEN
        IF cvt(k.ret, k.errno).tag = "Err" THEN cvt(k.ret, k.errno)
        ELSE IF k.si_code = 0 THEN Ok(None)
        ELSE Ok(Some(k.si_status))
    ELSE
        IF cvt(k.ret, k.errno).tag = "Err" THEN cvt(k.ret, k.errno)
        ELSE IF k.ret = 0 THEN Ok(None)
        ELSE IF WIFEXITED(k.wstatus) THEN Ok(Some(WEXITSTATUS(k.wstatus)))
        ELSE IF WIFSIGNALED(k.wstatus) THEN Ok(Some(WTERMSIG(k.wstatus)))
        ELSE Ok(Some(-1))

\* The call wait_impl issues for handle c.
status_query(c, flags) == IF UsesDescriptor(c) THEN waitid(c, flags) ELSE waitpid(c, flags)

unwrap_or(o, d) == IF o = None THEN d ELSE o[1]

unix_wait(c, k) ==
    LET r == wait_impl(c, 0, k) IN
    IF r.tag = "Ok" THEN Ok(Some(unwrap_or(r.val, -1))) ELSE r

\* try_wait mapping "not exited yet" to -1 the way wait does.
unix_try_wait_unwrapped(c, k) ==
    IF wait_impl(c, WNOHANG, k).tag = "Ok"
    THEN Ok(Some(unwrap_or(wait_impl(c, WNOHANG, k).val, -1)))
    ELSE wait_impl(c, WNOHANG, k)

unix_try_wait(c, k) == wait_impl(c, WNOHANG, k)

\* kill(pid, SIGKILL) / pidfd_send_signal(fd, SIGKILL): what the kernel
\* returns.  A process that exists takes the signal, or refuses it with
\* EPERM when the caller may not signal it; with no such process, ESRCH.
KillTarget(c) == IF UsesDescriptor(c) THEN
                     (IF proc.state = "gone" THEN "nobody" ELSE "proc")
                 ELSE PidHolder(c.pid)
kill_syscall(c) ==
    LET who == KillTarget(c) IN
    IF who = "nobody"
    THEN {[Sys(-1, "ESRCH", who) EXCEPT !.pidkeyed = ~UsesDescriptor(c)]}
    ELSE IF who = "proc" /\ ~perm
    THEN {[Sys(-1, "EPERM", who) EXCEPT !.pidkeyed = ~UsesDescriptor(c)]}
    ELSE {[Sys(0, "", who) EXCEPT !.pidkeyed = ~UsesDescriptor(c)]}

\* The kernel after a kill call: a running target is marked for death.
Signalled(k) ==
    /\ proc'  = IF k.ret = 0 /\ k.who = "proc" /\ proc.state = "running"
                THEN [proc EXCEPT !.state = "dying"] ELSE proc
    /\ decoy' = IF k.ret = 0 /\ k.who = "decoy" /\ decoy.state = "running"
                THEN [decoy EXCEPT !.state = "dying"] ELSE decoy

kill_impl(c, k) ==
    IF cvt(k.ret, k.errno).tag = "Err" THEN cvt(k.ret, k.errno) ELSE Ok(None)

\* kill without the ESRCH case.
unix_kill_strict(c, k) == kill_impl(c, k)

unix_kill(c, k) ==
    LET r == kill_impl(c, k) IN
    IF r.tag = "Ok" THEN Ok(None)
    ELSE IF r.err = "ESRCH" THEN Ok(None)
    ELSE r

\* open_pidfd(pid).ok(): raw is what SYS_pidfd_open returned (negative: error).
open_pidfd(raw) ==
    IF cfg = "pidfd" THEN (IF raw < 0 THEN Err("os") ELSE Ok(Some("pidfd")))
    ELSE Err("Unsupported")
ok(r) == IF r.tag = "Ok" THEN r.val ELSE None

\* fork storing the descriptor number where the pid belongs.
unix_fork_fd_as_pid(r, errno, raw) ==
    IF cvt(r, errno).tag = "Err"
    THEN [variant |-> "Err", child |-> {}, err |-> cvt(r, errno).err]
    ELSE IF r = 0
    THEN [variant |-> "Child", child |-> {}, err |-> ""]
    ELSE [variant |-> "Parent", err |-> "",
          child |-> {[pid |-> raw, descriptor |-> ok(open_pidfd(raw)), status |-> None]}]

\* fork(): what a control flow makes of the value libc::fork() returned to it.
unix_fork(r, errno, raw) ==
    IF cvt(r, errno).tag = "Err"
    THEN [variant |-> "Err", child |-> {}, err |-> cvt(r, errno).err]
    ELSE IF r = 0
    THEN [variant |-> "Child", child |-> {}, err |-> ""]
    ELSE [variant |-> "Parent", err |-> "",
          child |-> {[pid |-> r, descriptor |-> ok(open_pidfd(raw)), status |-> None]}]

(***************************************************************************)
(* The kernel, cloned-process side, and src/impl/win.rs                    *)
(***************************************************************************)
\* WaitForSingleObject(handle, 0) on the owned process handle.
WaitForSingleObject == IF proc.state = "zombie" THEN "WAIT_OBJECT_0" ELSE "WAIT_TIMEOUT"

\* GetExitCodeProcess(handle, &code): the u32 exit code of a finished process.
GetExitCodeProcess == Ok(Some(proc.term.code))

\* TerminateProcess(handle, 1): refused with ERROR_ACCESS_DENIED once the
\* process is terminating or has terminated.
TerminateProcess ==
    IF proc.state = "running" THEN Ok(None) ELSE Err("ERROR_ACCESS_DENIED")

\* `code as i32`: bit 31 of the u32 becomes the sign.
as_i32(u) == u.lo - u.hi * 2147483647 - u.hi

\* NTSTATUS::ok() is Err for the error statuses (the negative values).
ErrorStatuses == {"STATUS_NO_MEMORY", "STATUS_ACCESS_DENIED"}

\* Statuses other than STATUS_SUCCESS for which NTSTATUS::ok() is Ok (the
\* positive values: success and informational severities).
NonErrorStatuses == {"STATUS_PENDING"}

\* wait(): event is what WaitForSingleObject(handle, INFINITE) returned.
win_wait(c, event) ==
    IF event # "WAIT_OBJECT_0" THEN Err("last_os_error")
    ELSE IF GetExitCodeProcess.tag = "Err" THEN GetExitCodeProcess
    ELSE Ok(Some(as_i32(GetExitCodeProcess.val[1])))

win_try_wait(c, event) ==
    IF event = "WAIT_TIMEOUT" THEN Ok(None)
    ELSE IF event # "WAIT_OBJECT_0" THEN Err("last_os_error")
    ELSE IF GetExitCodeProcess.tag = "Err" THEN GetExitCodeProcess
    ELSE Ok(Some(as_i32(GetExitCodeProcess.val[1])))

\* A kill() that returns whatever TerminateProcess returned.
win_kill_undisambiguated(c, t) == t

\* kill(): t is what TerminateProcess returned.
win_kill(c, t) ==
    IF t.tag = "Err"
       /\ (t.err # "ERROR_ACCESS_DENIED" \/ win_try_wait(c, WaitForSingleObject).tag = "Err")
    THEN t
    ELSE Ok(None)

\* OS calls win_kill makes: TerminateProcess, then try_wait's calls when refused.
win_kill_calls(t) ==
    IF t.tag = "Err" /\ t.err = "ERROR_ACCESS_DENIED"
    THEN (IF WaitForSingleObject = "WAIT_OBJECT_0" THEN 3 ELSE 2)
    ELSE 1

\* Handle attributes are a bit mask over OBJ_PROTECT_CLOSE and OBJ_INHERIT.
OBJ_PROTECT_CLOSE == 1
OBJ_INHERIT == 2

Bit(a, m)    == (a \div m) % 2
BitAnd(a, m) == IF m = 0 THEN 0 ELSE Bit(a, m) * m
BitOr(a, m)  == IF m = 0 THEN a ELSE a + (1 - Bit(a, m)) * m

\* Handle tables a process may hold when it calls fork(): one that fits the
\* initial snapshot buffer and one that does not.  Entry i is the attribute
\* mask of handle i.
Tables == {[i \in 1..BufEntries |-> (i + 1) % 4],
           [i \in 1..(BufEntries + 1) |-> (i - 1) % 4]}

\* NtQueryInformationProcess(ProcessHandleInformation) with room for b entries:
\* the statuses the call may answer; the size it reports is Len(table).  The
\* answer is a too-small status while the table does not fit and
\* STATUS_SUCCESS when it does, or any other NTSTATUS, of which the loop of
\* snapshot_all_handles() tells apart the error statuses and the rest.
NtQueryInformationProcess(b, table) ==
    (IF b < Len(table) THEN {"STATUS_INFO_LENGTH_MISMATCH"} ELSE {"STATUS_SUCCESS"})
        \cup ErrorStatuses \cup NonErrorStatuses

\* One turn of the loop of snapshot_all_handles(): what it does with the
\* status and the reported size, b being the buffer before the call.
snapshot_all_handles(status, size, b) ==
    IF status \in {"STATUS_INFO_LENGTH_MISMATCH", "STATUS_BUFFER_TOO_SMALL",
                   "STATUS_BUFFER_OVERFLOW"}
    THEN [loop |-> "continue", buf |-> size, err |-> ""]
    ELSE IF status = "STATUS_SUCCESS"
    THEN [loop |-> "break", buf |-> b, err |-> ""]
    ELSE IF status \in ErrorStatuses
    THEN [loop |-> "return", buf |-> b, err |-> status]
    ELSE [loop |-> "continue", buf |-> b, err |-> ""]

\* fork(): `snapshot_all_handles().unwrap()` on the result r of the loop.
unwrap(r) == IF r.loop = "return" THEN "Panic" ELSE "value"

\* NtSetInformationObject(ObjectHandleFlagInformation): the attribute mask the
\* handle has afterwards.
NtSetInformationObject(flags) ==
    (IF flags.Inherit # 0 THEN OBJ_INHERIT ELSE 0)
        + (IF flags.ProtectFromClose # 0 THEN OBJ_PROTECT_CLOSE ELSE 0)

make_inheritable_unprotect(attributes, force_inherit) ==
    NtSetInformationObject(
        [Inherit |-> BitAnd(BitOr(attributes, IF force_inherit THEN OBJ_INHERIT ELSE 0),
                            OBJ_INHERIT),
         ProtectFromClose |-> 0])

\* make_inheritable(): attributes is the snapshot's HandleAttributes of the
\* handle; the result is the handle's attribute mask after the call.
make_inheritable(attributes, force_inherit) ==
    LET attrs == BitOr(attributes, IF force_inherit THEN OBJ_INHERIT ELSE 0)
    IN  NtSetInformationObject([Inherit |-> BitAnd(attrs, OBJ_INHERIT),
                                ProtectFromClose |-> BitAnd(attrs, OBJ_PROTECT_CLOSE)])

\* fork(): what a control flow makes of the NTSTATUS NtCreateUserProcess
\* returned to it; pid is GetProcessId(process_handle).
win_fork(status, pid) ==
    IF status = "STATUS_PROCESS_CLONED"
    THEN [variant |-> "Child", child |-> {}, err |-> ""]
    ELSE IF status \in ErrorStatuses
    THEN [variant |-> "Err", child |-> {}, err |-> status]
    ELSE [variant |-> "Parent", err |-> "",
          child |-> {[pid |-> pid, descriptor |-> Some("handle"), status |-> None]}]

(***************************************************************************)
(* src/lib.rs: Child                                                       *)
(***************************************************************************)
id(c) == c.pid

\* Methods that never look at the cached status.
wait_never_cached(c) == FALSE
kill_never_cached(c) == FALSE
kill_always_cached(c) == TRUE
try_wait_never_cached(c) == FALSE

\* `match self.status { Some(status) => ... }` of each method.
wait_cached(c)     == c.status # None
try_wait_cached(c) == c.status # None
kill_cached(c)     == c.status # None

\* A wait() that caches -1 when the status query failed.
wait_store_on_error(c, r) ==
    [c EXCEPT !.status = IF r.tag = "Ok" THEN r.val ELSE Some(-1)]

\* wait(): `let status = impl::wait(self)?; self.status = Some(status);`
wait_store(c, r) == IF r.tag = "Ok" THEN [c EXCEPT !.status = r.val] ELSE c

\* try_wait(): `self.status = impl::try_wait(self)?; Ok(self.status)`
try_wait_store(c, r) == IF r.tag = "Ok" THEN [c EXCEPT !.status = r.val] ELSE c

\* The record of a finished operation.
Returned(o, r) == [op |-> o, tag |-> r.tag, val |-> r.val, err |-> r.err]
Pending(o)     == [op |-> o, tag |-> "pending", val |-> None, err |-> ""]

\* How a run of the closure given to fork_fn can end.
FOutcomes == {"returns_success", "returns_failure", "panics"}

\* `catch_unwind(AssertUnwindSafe(f))`: a panic of f becomes an Err.
catch_unwind(outcome) == IF outcome = "panics" THEN Err("panic") ELSE Ok(Some(outcome))

\* `f().report()`: Termination for Result<T, E> reports T's own code for
\* Ok and ExitCode::FAILURE for Err.
report(r) ==
    IF r.tag = "Ok" /\ r.val = Some("returns_success") THEN "SUCCESS" ELSE "FAILURE"

fork_fn_inverted(variant) == IF variant = "Parent" THEN "run" ELSE "return"

\* fork_fn(): what the control flow does that saw fork() return `variant`:
\* Fork::Child runs f and exits, Fork::Parent and Err (by `?`) return.
fork_fn(variant) == IF variant = "Child" THEN "run" ELSE "return"

\* fork_fn(): `ExitCode::SUCCESS => exit(0), _ => exit(1)`
fork_fn_exit(code) == IF code = "SUCCESS" THEN 0 ELSE 1

\* The control flows fork_fn returns to, fl being what fork() returned to each.
FnReturns(fl) ==
    IF via = "fork_fn"
    THEN {w \in {"original", "new"} :
             fl[w].variant # "none" /\ fork_fn(fl[w].variant) = "return"}
    ELSE {}

(***************************************************************************)
(* Initial state: a process that has not called fork() yet.                *)
(***************************************************************************)
NoFlow == [variant |-> "none", err |-> ""]
Seen(o) == [variant |-> o.variant, err |-> o.err]

Init ==
    /\ cfg \in Backends
    /\ flows = [original |-> NoFlow, new |-> NoFlow]
    /\ children = {}
    /\ proc  = [state |-> "none", pid |-> 0, term |-> NoTerm]
    /\ decoy = [state |-> "none", pid |-> 0, term |-> NoTerm, isChild |-> FALSE]
    /\ op = "idle"
    /\ eintr = 0
    /\ ncalls = 0
    /\ pidcalls = 0
    /\ ret = Pending("none")
    /\ atCall = None
    /\ seen = "nocall"
    /\ sysErr = ""
    /\ forced = FALSE
    /\ waited = None
    /\ later = FALSE
    /\ first = None
    /\ handles \in (IF cfg = "win" THEN Tables ELSE {<<>>})
    /\ chandles = <<>>
    /\ pre = handles
    /\ snap = <<>>
    /\ buf = BufEntries
    /\ qstatus = ""
    /\ fpc = "start"
    /\ dropped = {}
    /\ closes = 0
    /\ via \in {"fork", "fork_fn"}
    /\ fran = [original |-> 0, new |-> 0]
    /\ fres = "none"
    /\ fnret = {}
    /\ perm = TRUE
    /\ postmortem = FALSE

(***************************************************************************)
(* fork()                                                                  *)
(***************************************************************************)
\* Native fork: libc::fork() fails in the caller, or returns the new pid in
\* the caller and 0 in the new process.
UnixFork ==
    /\ IsUnix
    /\ flows.original.variant = "none"
    /\ \/ /\ flows' = [flows EXCEPT !.original = Seen(unix_fork(-1, "EAGAIN", -1))]
          /\ children' = unix_fork(-1, "EAGAIN", -1).child
          /\ UNCHANGED proc
       \/ \E pid \in PidSet, raw \in {-1, 3} :
          /\ flows' = [original |-> Seen(unix_fork(pid, "", raw)),
                       new      |-> Seen(unix_fork(0, "", raw))]
          /\ children' = unix_fork(pid, "", raw).child
          /\ proc' = [state |-> "running", pid |-> pid, term |-> NoTerm]
    /\ fnret' = FnReturns(flows')
    /\ UNCHANGED <<winVars, via, fran, fres, dropVars, perm, postmortem, cfg, decoy, op, eintr, ncalls, pidcalls, ret, atCall, seen, sysErr, forced, waited, later, first>>

\* Cloned process, first part: the loop of snapshot_all_handles() queries the
\* handle table; when it has the snapshot, fork() makes every handle in it
\* inheritable.  A query that fails ends the loop with an error, which
\* fork() unwraps.
WinSnapshot ==
    /\ cfg = "win"
    /\ fpc \in {"start", "query"}
    /\ \E st \in NtQueryInformationProcess(buf, handles) :
       LET r == snapshot_all_handles(st, Len(handles), buf)
       IN  /\ qstatus' = st
           /\ buf' = r.buf
           /\ IF r.loop = "continue"
              THEN /\ fpc' = "query"
                   /\ UNCHANGED <<flows, handles, snap>>
              ELSE IF unwrap(r) = "Panic"
              THEN /\ fpc' = "done"
                   /\ flows' = [flows EXCEPT !.original = [variant |-> "Panic", err |-> r.err]]
                   /\ UNCHANGED <<handles, snap>>
              ELSE /\ fpc' = "create"
                   /\ snap' = handles
                   /\ handles' = [i \in DOMAIN handles |-> make_inheritable(handles[i], TRUE)]
                   /\ UNCHANGED flows
    /\ UNCHANGED <<chandles, pre, fnVars, dropVars, perm, postmortem, cfg, children, proc, decoy, op, eintr, ncalls, pidcalls, ret,
                   atCall, seen, sysErr, forced, waited, later, first>>

\* Cloned process, second part: NtCreateUserProcess fails in the caller, or
\* returns STATUS_SUCCESS in the caller and STATUS_PROCESS_CLONED in the
\* clone, which starts with a copy of every inheritable handle.  Each flow
\* then puts the snapshot's attributes back on its handles and returns.
WinFork ==
    /\ cfg = "win"
    /\ fpc = "create"
    /\ \/ \E st \in ErrorStatuses :
          /\ flows' = [flows EXCEPT !.original = Seen(win_fork(st, 0))]
          /\ children' = win_fork(st, 0).child
          /\ UNCHANGED <<proc, chandles>>
       \/ \E pid \in PidSet :
          /\ flows' = [original |-> Seen(win_fork("STATUS_SUCCESS", pid)),
                       new      |-> Seen(win_fork("STATUS_PROCESS_CLONED", pid))]
          /\ children' = win_fork("STATUS_SUCCESS", pid).child
          /\ proc' = [state |-> "running", pid |-> pid, term |-> NoTerm]
          /\ chandles' = [i \in DOMAIN snap |-> make_inheritable(snap[i], FALSE)]
    /\ handles' = [i \in DOMAIN snap |-> make_inheritable(snap[i], FALSE)]
    /\ fpc' = "done"
    /\ fnret' = FnReturns(flows')
    /\ UNCHANGED <<pre, snap, buf, qstatus, via, fran, fres, dropVars, perm, postmortem, cfg, decoy, op, eintr, ncalls, pidcalls, ret,
                   atCall, seen, sysErr, forced, waited, later, first>>

(***************************************************************************)
(* The environment: the new process and the kernel.                        *)
(***************************************************************************)
\* The new process, back from fork() in the caller's code, calls exit(code).
ProcessExits ==
    /\ via = "fork"
    /\ proc.state = "running"
    /\ \/ /\ IsUnix
          /\ \E code \in ExitCodes :
                proc' = [proc EXCEPT !.state = "zombie", !.term = Exited(code)]
       \/ /\ cfg = "win"
          /\ \E code \in WinExitCodes :
                proc' = [proc EXCEPT !.state = "zombie", !.term = WinExited(code)]
    /\ UNCHANGED <<winVars, fnVars, dropVars, perm, postmortem, cfg, flows, children, decoy, op, eintr, ncalls, pidcalls, ret,
                   atCall, seen, sysErr, forced, waited, later, first>>

\* fork_fn in a control flow that saw Fork::Child: it runs f, then exits
\* with 0 or 1.  (Only the exit of the new process is followed further.)
ForkFnRuns ==
    /\ via = "fork_fn"
    /\ \E w \in {"original", "new"}, outcome \in FOutcomes :
       /\ flows[w].variant # "none"
       /\ fork_fn(flows[w].variant) = "run"
       /\ fran[w] = 0
       /\ fran' = [fran EXCEPT ![w] = @ + 1]
       /\ fres' = outcome
       /\ IF w = "new"
          THEN /\ proc.state = "running"
               /\ proc' = [proc EXCEPT !.state = "zombie",
                     !.term = LET code == fork_fn_exit(report(catch_unwind(outcome)))
                              IN  IF IsUnix THEN Exited(code) ELSE WinExited(U32(0, code))]
          ELSE UNCHANGED proc
    /\ UNCHANGED <<winVars, dropVars, via, fnret, perm, postmortem, cfg, flows, children, decoy, op, eintr,
                   ncalls, pidcalls, ret, atCall, seen, sysErr, forced, waited, later, first>>

\* The new process is terminated by a signal that did not come through the handle.
ProcessSignaled ==
    /\ IsUnix
    /\ proc.state = "running"
    /\ \E sig \in TermSignals :
          proc' = [proc EXCEPT !.state = "zombie", !.term = Signaled(sig)]
    /\ UNCHANGED <<winVars, fnVars, dropVars, perm, postmortem, cfg, flows, children, decoy, op, eintr, ncalls, pidcalls, ret,
                   atCall, seen, sysErr, forced, waited, later, first>>

\* A SIGKILL / terminate request accepted by the kernel takes effect.
KillTakesEffect ==
    /\ \/ /\ proc.state = "dying"
          /\ proc' = [proc EXCEPT !.state = "zombie",
                        !.term = IF IsUnix THEN Signaled(SIGKILL)
                                 ELSE WinExited(U32(0, TERMINATE_CODE))]
          /\ UNCHANGED decoy
       \/ /\ decoy.state = "dying"
          /\ decoy' = [decoy EXCEPT !.state = "zombie", !.term = Signaled(SIGKILL)]
          /\ UNCHANGED proc
    /\ UNCHANGED <<winVars, fnVars, dropVars, perm, postmortem, cfg, flows, children, op, eintr, ncalls, pidcalls, ret,
                   atCall, seen, sysErr, forced, waited, later, first>>

\* After the process has been collected the kernel gives its pid to an
\* unrelated process, which may or may not be a child of the original process.
PidRecycled ==
    /\ IsUnix
    /\ proc.state = "gone"
    /\ decoy.state = "none"
    /\ \E isChild \in BOOLEAN :
          decoy' = [state |-> "running", pid |-> proc.pid, term |-> NoTerm,
                    isChild |-> isChild]
    /\ UNCHANGED <<winVars, fnVars, dropVars, perm, postmortem, cfg, flows, children, proc, op, eintr, ncalls, pidcalls, ret,
                   atCall, seen, sysErr, forced, waited, later, first>>

DecoyExits ==
    /\ decoy.state = "running"
    /\ \E code \in {0, 7} :
          decoy' = [decoy EXCEPT !.state = "zombie", !.term = Exited(code)]
    /\ UNCHANGED <<winVars, fnVars, dropVars, perm, postmortem, cfg, flows, children, proc, op, eintr, ncalls, pidcalls, ret,
                   atCall, seen, sysErr, forced, waited, later, first>>

\* The new process takes credentials under which the original process may
\* no longer signal it (it executes a set-user-ID program).
CredentialsChange ==
    /\ IsUnix
    /\ proc.state = "running"
    /\ perm
    /\ perm' = FALSE
    /\ UNCHANGED <<winVars, fnVars, dropVars, postmortem, cfg, flows, children, proc, decoy, op, eintr,
                   ncalls, pidcalls, ret, atCall, seen, sysErr, forced, waited, later, first>>

\* The exited process is collected by someone other than the handle (another
\* wait in the program, or SIGCHLD set to be ignored).
ReapedElsewhere ==
    /\ IsUnix
    /\ proc.state = "zombie"
    /\ proc' = [proc EXCEPT !.state = "gone"]
    /\ UNCHANGED <<winVars, fnVars, dropVars, perm, postmortem, cfg, flows, children, decoy, op, eintr, ncalls, pidcalls, ret,
                   atCall, seen, sysErr, forced, waited, later, first>>

(***************************************************************************)
(* Child::wait.  The call either returns the cached status at once or      *)
(* enters the backend's blocking query, which returns in a later step.     *)
(***************************************************************************)
Wait ==
    /\ op = "idle"
    /\ \E c \in children :
       /\ atCall' = c.status
       /\ ncalls' = 0 /\ pidcalls' = 0 /\ eintr' = 0
       /\ seen' = "nocall" /\ sysErr' = ""
       /\ later' = (waited # None)
       /\ IF wait_cached(c)
          THEN /\ ret' = Returned("wait", Ok(c.status))
               /\ op' = "idle"
               /\ waited' = IF waited = None THEN c.status ELSE waited
               /\ first' = IF first = None THEN c.status ELSE first
          ELSE /\ ret' = Pending("wait")
               /\ op' = "wait"
               /\ UNCHANGED <<waited, first>>
    /\ UNCHANGED <<winVars, fnVars, dropVars, perm, postmortem, cfg, flows, children, proc, decoy, forced>>

\* A signal interrupts the blocked waitid / waitpid: it returns -1 with EINTR.
WaitInterrupted ==
    /\ op = "wait"
    /\ IsUnix
    /\ eintr < MaxEintr
    /\ \E c \in children :
       /\ QueryBlocks(c, 0)
       /\ ncalls' = ncalls + 1
       /\ pidcalls' = pidcalls + (IF UsesDescriptor(c) THEN 0 ELSE 1)
       /\ seen' = proc.state
       /\ sysErr' = "EINTR"
       /\ IF cvt_r(cvt(-1, "EINTR")) = "retry"
          THEN /\ eintr' = eintr + 1
               /\ UNCHANGED <<op, ret>>
          ELSE /\ op' = "idle"
               /\ ret' = Returned("wait", cvt(-1, "EINTR"))
               /\ UNCHANGED eintr
    /\ UNCHANGED <<winVars, fnVars, dropVars, perm, postmortem, cfg, flows, children, proc, decoy, atCall, forced, waited, later, first>>

\* The blocking query completes and wait() returns.
WaitReturns ==
    /\ op = "wait"
    /\ \E c \in children :
       /\ seen' = proc.state
       /\ IF IsUnix
          THEN /\ ~QueryBlocks(c, 0)
               /\ children' = {wait_store(c, unix_wait(c, status_query(c, 0)))}
               /\ ret' = Returned("wait", unix_wait(c, status_query(c, 0)))
               /\ Reaped(status_query(c, 0))
               /\ ncalls' = ncalls + 1
               /\ pidcalls' = pidcalls + (IF status_query(c, 0).pidkeyed THEN 1 ELSE 0)
               /\ sysErr' = status_query(c, 0).errno
          ELSE /\ proc.state = "zombie"
               /\ children' = {wait_store(c, win_wait(c, "WAIT_OBJECT_0"))}
               /\ ret' = Returned("wait", win_wait(c, "WAIT_OBJECT_0"))
               /\ ncalls' = ncalls + 2
               /\ sysErr' = ""
               /\ UNCHANGED <<proc, decoy, pidcalls>>
    /\ op' = "idle"
    /\ waited' = IF waited = None /\ ret'.tag = "Ok" THEN ret'.val ELSE waited
    /\ first'  = IF first = None /\ ret'.tag = "Ok" THEN ret'.val ELSE first
    /\ UNCHANGED <<winVars, fnVars, dropVars, perm, postmortem, cfg, flows, eintr, atCall, forced, later>>

\* WaitForSingleObject(handle, timeout) stays in the kernel while the process
\* has not finished, unless the timeout is zero.
WaitBlocks(timeout) == timeout # "0" /\ proc.state # "zombie"

try_wait_blocks_as_wait(c) ==
    IF IsUnix THEN QueryBlocks(c, 0) ELSE WaitBlocks("INFINITE")

\* Whether the status query of try_wait would stay in the kernel: the query is
\* wait_impl::<WNOHANG> on unix and WaitForSingleObject(handle, 0) on windows.
try_wait_blocks(c) ==
    IF IsUnix THEN QueryBlocks(c, WNOHANG) ELSE WaitBlocks("0")

(***************************************************************************)
(* Child::try_wait                                                         *)
(***************************************************************************)
TryWait ==
    /\ op = "idle"
    /\ \E c \in children :
       /\ atCall' = c.status
       /\ IF try_wait_cached(c)
          THEN /\ ret' = Returned("try_wait", Ok(c.status))
               /\ ncalls' = 0 /\ pidcalls' = 0 /\ seen' = "nocall" /\ sysErr' = ""
               /\ op' = "idle"
               /\ UNCHANGED <<children, proc, decoy>>
          ELSE IF try_wait_blocks(c)
          THEN /\ ret' = Pending("try_wait")
               /\ op' = "try_wait"
               /\ ncalls' = 1 /\ pidcalls' = 0 /\ seen' = proc.state /\ sysErr' = ""
               /\ UNCHANGED <<children, proc, decoy>>
          ELSE /\ seen' = proc.state
               /\ op' = "idle"
               /\ IF IsUnix
                  THEN LET k == status_query(c, WNOHANG)
                           r == unix_try_wait(c, k)
                       IN  /\ children' = {try_wait_store(c, r)}
                           /\ ret' = Returned("try_wait",
                                  IF r.tag = "Ok" THEN Ok(try_wait_store(c, r).status) ELSE r)
                           /\ Reaped(k)
                           /\ ncalls' = 1
                           /\ pidcalls' = IF k.pidkeyed THEN 1 ELSE 0
                           /\ sysErr' = k.errno
                  ELSE LET r == win_try_wait(c, WaitForSingleObject)
                       IN  /\ children' = {try_wait_store(c, r)}
                           /\ ret' = Returned("try_wait",
                                  IF r.tag = "Ok" THEN Ok(try_wait_store(c, r).status) ELSE r)
                           /\ ncalls' = IF WaitForSingleObject = "WAIT_OBJECT_0" THEN 2 ELSE 1
                           /\ pidcalls' = 0
                           /\ sysErr' = ""
                           /\ UNCHANGED <<proc, decoy>>
    /\ first' = IF first = None /\ ret'.tag = "Ok" THEN ret'.val ELSE first
    /\ UNCHANGED <<winVars, fnVars, dropVars, perm, postmortem, cfg, flows, eintr, forced, waited, later>>

(***************************************************************************)
(* Child::kill                                                             *)
(***************************************************************************)
Kill ==
    /\ op = "idle"
    /\ \E c \in children :
       /\ atCall' = c.status
       /\ postmortem' = (postmortem \/ (c.status = None /\ proc.state = "zombie" /\ ~forced))
       /\ IF kill_cached(c)
          THEN /\ ret' = Returned("kill", Ok(None))
               /\ ncalls' = 0 /\ pidcalls' = 0 /\ seen' = "nocall" /\ sysErr' = ""
               /\ forced' = (forced \/ proc.state = "running")
               /\ UNCHANGED <<proc, decoy>>
          ELSE /\ seen' = proc.state
               /\ IF IsUnix
                  THEN \E k \in kill_syscall(c) :
                          /\ ret' = Returned("kill", unix_kill(c, k))
                          /\ Signalled(k)
                          /\ ncalls' = 1
                          /\ pidcalls' = IF k.pidkeyed THEN 1 ELSE 0
                          /\ sysErr' = k.errno
                          /\ forced' = (forced \/ (unix_kill(c, k).tag = "Ok"
                                                   /\ proc.state = "running"))
                  ELSE /\ ret' = Returned("kill", win_kill(c, TerminateProcess))
                       /\ proc' = IF TerminateProcess.tag = "Ok"
                                  THEN [proc EXCEPT !.state = "dying"] ELSE proc
                       /\ ncalls' = win_kill_calls(TerminateProcess)
                       /\ pidcalls' = 0
                       /\ sysErr' = TerminateProcess.err
                       /\ forced' = (forced \/ (win_kill(c, TerminateProcess).tag = "Ok"
                                                /\ proc.state = "running"))
                       /\ UNCHANGED decoy
    /\ UNCHANGED <<winVars, fnVars, dropVars, perm, cfg, flows, children, op, eintr, waited, later, first>>

(***************************************************************************)
(* The original process drops the Child.                                   *)
(***************************************************************************)
drop_kills(c) ==
    [close |-> c.descriptor # None, kill |-> c.status = None]

\* Child has no Drop impl: dropping it drops its fields, of which only the
\* descriptor (an OwnedFd / OwnedHandle) has a destructor, which closes it.
drop(c) ==
    [close |-> c.descriptor # None, kill |-> FALSE]

Drop ==
    /\ op = "idle"
    /\ \E c \in children :
       /\ children' = children \ {c}
       /\ dropped' = dropped \cup {c}
       /\ closes' = closes + (IF drop(c).close THEN 1 ELSE 0)
       /\ proc' = IF drop(c).kill /\ proc.state = "running"
                  THEN [proc EXCEPT !.state = "dying"] ELSE proc
    /\ UNCHANGED <<winVars, fnVars, perm, postmortem, cfg, flows, decoy, op, eintr, ncalls, pidcalls, ret,
                   atCall, seen, sysErr, forced, waited, later, first>>

(***************************************************************************)
(* Specifications                                                          *)
(***************************************************************************)
\* The handle is the only one that collects the new process.
Next ==
    \/ UnixFork \/ WinSnapshot \/ WinFork
    \/ ProcessExits \/ ForkFnRuns \/ ProcessSignaled \/ KillTakesEffect
    \/ PidRecycled \/ DecoyExits
    \/ Wait \/ WaitInterrupted \/ WaitReturns
    \/ TryWait
    \/ Kill
    \/ Drop

Spec == Init /\ [][Next]_vars

\* As Spec, and the exited process may also be collected behind the handle's
\* back, and the new process may change its credentials.
EnvNext == Next \/ ReapedElsewhere \/ CredentialsChange

EnvSpec == Init /\ [][EnvNext]_vars

\* The kernel delivers a kill it accepted, and a blocking status query whose
\* process has finished completes.  Nothing obliges the new process to exit
\* or the original process to call anything.
Fairness ==
    /\ WF_vars(KillTakesEffect)
    /\ WF_vars(WaitReturns)

FairSpec == Spec /\ Fairness

FairEnvSpec == EnvSpec /\ Fairness

TypeOK ==
    /\ cfg \in Backends
    /\ op \in {"idle", "wait", "try_wait"}
    /\ eintr \in 0..MaxEintr
    /\ Cardinality(children) <= 1
    /\ proc.state \in {"none", "running", "dying", "zombie", "gone"}
    /\ decoy.state \in {"none", "running", "dying", "zombie", "gone"}
    /\ fpc \in {"start", "query", "create", "done"}
    /\ buf \in BufEntries..(BufEntries + 1)
    /\ \A i \in DOMAIN handles : handles[i] \in 0..(OBJ_PROTECT_CLOSE + OBJ_INHERIT)
    /\ Cardinality(children \cup dropped) <= 1
    /\ closes \in 0..1
    /\ via \in {"fork", "fork_fn"}
    /\ fres \in FOutcomes \cup {"none"}
    /\ fnret \subseteq {"original", "new"}
    /\ perm \in BOOLEAN /\ postmortem \in BOOLEAN

(***************************************************************************)
(* Properties                                                              *)
(***************************************************************************)
\* The status the handle is expected to report for a finished process.
ExitStatus(term) == IF IsUnix THEN term.val ELSE as_i32(term.code)

HasCached == \E c \in children : c.status # None

\* C1: once a wait() has returned a status, every later wait() on the handle
\* returns that same value and issues no OS call at all (it never enters the
\* blocking query), also after the pid was given to another process.
C1_WaitIdempotent ==
    (later /\ ret.op = "wait") =>
        /\ op = "idle"
        /\ ret = Returned("wait", Ok(waited))
        /\ ncalls = 0
        /\ pidcalls = 0
        /\ seen = "nocall"

C1_Witness ==
    /\ later /\ ret.op = "wait" /\ op = "idle"
    /\ decoy.state = "running"
    /\ ret.tag = "Ok"

\* C2: a kill() called with the status already cached returns Ok(()) and
\* issues no OS call; the process that took over the pid after the handle
\* collected the original one is never signalled.
C2_KillAfterReapIsNoop ==
    /\ (ret.op = "kill" /\ atCall # None) =>
          /\ ret = Returned("kill", Ok(None))
          /\ ncalls = 0
          /\ pidcalls = 0
          /\ seen = "nocall"
    /\ decoy.state # "dying"
    /\ decoy.term.how # "signal"

C2_Witness ==
    /\ ret = Returned("kill", Ok(None))
    /\ atCall # None
    /\ ncalls = 0
    /\ decoy.state = "running"

\* C3: a try_wait() that queries while the process runs returns Ok(None) and
\* caches nothing; one that queries after the exit returns the exit status;
\* from then on every try_wait() and wait() returns that status, without
\* blocking.
C3_TryWaitPolling ==
    /\ (ret.op = "try_wait" /\ atCall = None /\ seen \in {"running", "dying"}) =>
          /\ ret = Returned("try_wait", Ok(None))
          /\ ~HasCached
    /\ (ret.op = "try_wait" /\ atCall = None /\ seen \notin {"running", "dying"}) =>
          /\ seen = "zombie"
          /\ ret = Returned("try_wait", Ok(Some(ExitStatus(proc.term))))
          /\ first = ret.val
    /\ (first # None /\ ret.op \in {"try_wait", "wait"}) =>
          /\ op = "idle"
          /\ ret.tag = "Ok"
          /\ ret.val = first

C3_Witness ==
    /\ ret.op = "wait" /\ ret.tag = "Ok"
    /\ atCall # None
    /\ first = ret.val
    /\ waited = first
    /\ ncalls = 0

\* C4: on the native-fork backend the status wait() / try_wait() returns is
\* the exit code of a process that exited and the signal number of a process
\* that a signal terminated, on the descriptor path and on the pid path.
C4_StatusDecoding ==
    (IsUnix /\ ret.op \in {"wait", "try_wait"} /\ ret.tag = "Ok" /\ ret.val # None) =>
        /\ proc.term.how \in {"exit", "signal"}
        /\ proc.term.how = "exit"   => ret.val = Some(proc.term.val)
        /\ proc.term.how = "signal" => ret.val = Some(proc.term.val)

C4_Witness ==
    /\ IsUnix
    /\ ret = Returned("wait", Ok(Some(42)))
    /\ proc.term = Exited(42)
    /\ atCall = None

\* The status of a process that a kill() through the handle terminated.
ForcedStatus == IF IsUnix THEN SIGKILL ELSE as_i32(U32(0, TERMINATE_CODE))

\* C5: after a kill() that returned success while the process was running, a
\* wait() that is called returns, and what it returns is the forced status:
\* SIGKILL's number on the native-fork backend, exit code 1 on the other.
C5_KillThenWait ==
    /\ []((forced /\ ret.op = "wait" /\ ret.tag # "pending") =>
             ret = Returned("wait", Ok(Some(ForcedStatus))))
    /\ ((forced /\ op = "wait") ~>
             (op = "idle" /\ ret = Returned("wait", Ok(Some(ForcedStatus)))))

C5_Witness ==
    /\ forced
    /\ ret = Returned("wait", Ok(Some(ForcedStatus)))
    /\ atCall = None
    /\ ncalls > 0

\* C6: a fork() that succeeded is observed as Parent, with a handle whose
\* status is empty, by the original process and as Child by the new process;
\* a fork() whose duplication call failed is observed as an error by the
\* original process alone, and leaves no new process and no handle.  (A
\* cloned-process fork() that stopped before its duplication call, for want
\* of a handle snapshot, has no duplication call to fail: see C13.)
C6_ForkOutcome ==
    /\ flows.original.variant = "none" =>
          /\ proc.state = "none" /\ children = {} /\ flows.new.variant = "none"
    /\ flows.original.variant # "none" =>
          \/ /\ proc.state # "none"
             /\ flows.original.variant = "Parent"
             /\ flows.new.variant = "Child"
             /\ Cardinality(children \cup dropped) = 1
             /\ (ret.op = "none" => ~HasCached)
          \/ /\ proc.state = "none"
             /\ flows.original.variant = "Err"
             /\ flows.original.err # ""
             /\ flows.new.variant = "none"
             /\ children = {}
          \/ /\ flows.original.variant = "Panic"
             /\ snap = <<>>

C6_Witness ==
    /\ flows.original.variant = "Parent"
    /\ flows.new.variant = "Child"
    /\ proc.state = "running"
    /\ ret.op = "none"

\* C7: id() is the pid of the process the fork created, in every state: before
\* and after wait(), try_wait() and kill(), and after the process is gone.
C7_IdIsPid ==
    \A c \in children : id(c) = proc.pid /\ id(c) \in PidSet

C7_Witness ==
    /\ \E c \in children : id(c) = proc.pid /\ c.status # None
    /\ proc.state = "gone"
    /\ decoy.state = "zombie"
    /\ ret.op = "kill"

\* C8: a wait() that was called returns the exit status once the process has
\* exited, however often its blocking call was interrupted before.
C8_WaitReturns ==
    (ret.op = "wait" /\ proc.state = "zombie") ~>
        (op = "idle" /\ ret = Returned("wait", Ok(Some(ExitStatus(proc.term)))))

C8_Witness ==
    /\ op = "idle"
    /\ ret.op = "wait" /\ ret.tag = "Ok"
    /\ atCall = None
    /\ eintr = MaxEintr

\* C9: on the native-fork backend wait() and try_wait() never return EINTR: a
\* status query that was interrupted is issued again, so a wait() that is in
\* progress has issued one call per interruption and a finished one a
\* further, final call.
C9_NoEintr ==
    /\ ret.op \in {"wait", "try_wait"} => ret.err # "EINTR"
    /\ (IsUnix /\ ret.op = "wait" /\ atCall = None) =>
          ncalls = eintr + (IF op = "idle" THEN 1 ELSE 0)
    /\ sysErr = "EINTR" => op = "wait"

C9_Witness ==
    /\ IsUnix
    /\ ret.op = "wait" /\ ret.tag = "Err"
    /\ eintr > 0

\* C10: on the native-fork backend a kill() whose call failed with ESRCH
\* returns Ok(()), and one whose call failed with another error returns that
\* error.
C10_KillEsrch ==
    (IsUnix /\ ret.op = "kill" /\ atCall = None) =>
        /\ ncalls = 1
        /\ sysErr = "" => ret = Returned("kill", Ok(None))
        /\ sysErr = "ESRCH" => ret = Returned("kill", Ok(None))
        /\ sysErr \notin {"", "ESRCH"} => ret = Returned("kill", Err(sysErr))

C10_Witness ==
    /\ IsUnix
    /\ ret = Returned("kill", Ok(None))
    /\ atCall = None
    /\ sysErr = "ESRCH"

\* C11: on the cloned-process backend a kill() whose terminate request was
\* refused with access denied returns success exactly when the non-blocking
\* wait saw the process finished, and the access-denied error otherwise; any
\* other terminate error is returned.
C11_AccessDenied ==
    (cfg = "win" /\ ret.op = "kill" /\ atCall = None /\ sysErr # "") =>
        IF sysErr = "ERROR_ACCESS_DENIED"
        THEN /\ ret.tag = "Ok" <=> seen = "zombie"
             /\ ret.tag = "Err" => ret.err = "ERROR_ACCESS_DENIED"
        ELSE ret = Returned("kill", Err(sysErr))

\* C12: on the cloned-process backend no handle's protect-from-close
\* attribute ever differs from what it was before fork(), and once fork() is
\* over (as Parent, as Child, or with an error) every handle of the process
\* has the attributes, the inheritable one included, it had before the call.
C12_HandleAttributes ==
    cfg = "win" =>
        /\ DOMAIN handles = DOMAIN pre
        /\ \A i \in DOMAIN pre :
              Bit(handles[i], OBJ_PROTECT_CLOSE) = Bit(pre[i], OBJ_PROTECT_CLOSE)
        /\ fpc = "done" =>
              \A i \in DOMAIN pre : Bit(handles[i], OBJ_INHERIT) = Bit(pre[i], OBJ_INHERIT)
        /\ flows.new.variant = "Child" => chandles = pre

C12_Witness ==
    /\ cfg = "win"
    /\ flows.original.variant = "Parent"
    /\ flows.new.variant = "Child"
    /\ snap = pre
    /\ \E i \in DOMAIN pre : Bit(pre[i], OBJ_INHERIT) = 0 /\ Bit(handles[i], OBJ_INHERIT) = 0
    /\ \E i \in DOMAIN pre : Bit(pre[i], OBJ_PROTECT_CLOSE) = 1

\* C13: a handle-table query that fails makes the cloned-process fork()
\* return an error, with no new process and no handle attribute changed.
C13_EnumerationFailure ==
    (cfg = "win" /\ qstatus \in ErrorStatuses) =>
        /\ flows.original.variant = "Err"
        /\ flows.original.err = qstatus
        /\ proc.state = "none"
        /\ handles = pre

\* C14: dropping a handle leaves the process it refers to (and every other
\* process) as it is, and closes the handle's descriptor, if it has one; no
\* other step closes a descriptor, and none is closed twice.
C14_DropFrame ==
    /\ [](closes = Cardinality({c \in dropped : c.descriptor # None}))
    /\ [][(dropped' # dropped => proc' = proc /\ decoy' = decoy)
          /\ (closes' # closes => dropped' # dropped /\ closes' = closes + 1)]_vars

C14_Witness ==
    /\ closes = 1
    /\ \E c \in dropped : c.status = None
    /\ proc.state = "running"
    /\ ret.op = "none"

\* C15: try_wait() never stays inside an OS call: it returns in the step it
\* is called in, after no OS call when the status is cached, and otherwise
\* after one non-blocking status query that is never retried (followed, on
\* the cloned-process backend, by the read of the exit code when the query
\* found the process finished).
C15_TryWaitNeverBlocks ==
    /\ op # "try_wait"
    /\ ret.op = "try_wait" =>
          /\ ret.tag # "pending"
          /\ ncalls = (IF atCall # None THEN 0
                       ELSE IF cfg = "win" /\ seen = "zombie" THEN 2 ELSE 1)

C15_Witness ==
    /\ ret = Returned("try_wait", Ok(None))
    /\ atCall = None
    /\ seen = "running"
    /\ proc.state = "running"

\* C16: under fork_fn(f) the original process never runs f and gets the
\* handle back; the new process never returns from fork_fn, runs f at most
\* once, and when it exits it has run f exactly once and exits with 0 if f's
\* result reported success and with 1 if it did not or f panicked; wait() on
\* the handle then returns that code.
FnCode == IF fres = "returns_success" THEN 0 ELSE 1

C16_ForkFn ==
    via = "fork_fn" =>
        /\ fran.original = 0
        /\ fran.new <= 1
        /\ "new" \notin fnret
        /\ flows.original.variant \in {"Parent", "Err"} => "original" \in fnret
        /\ flows.original.variant = "Parent" => Cardinality(children \cup dropped) = 1
        /\ (proc.term.how = "exit" /\ ~forced) => fran.new = 1
        /\ fran.new = 1 =>
              /\ proc.state \in {"zombie", "gone"}
              /\ proc.term.how = "exit"
              /\ ExitStatus(proc.term) = FnCode
        /\ (fran.new = 1 /\ ret.op = "wait" /\ ret.tag # "pending") =>
              ret = Returned("wait", Ok(Some(FnCode)))

C16_Witness ==
    /\ via = "fork_fn"
    /\ fres = "panics"
    /\ fran.new = 1
    /\ ret = Returned("wait", Ok(Some(1)))
    /\ atCall = None

\* C17: a handle's status is absent or is the first status a wait() or
\* try_wait() returned; a step that makes it present is the return of a
\* wait() or try_wait() with that value, and once present it is never
\* changed or cleared, whatever wait(), try_wait() and kill() follow.
C17_StatusWriteOnce ==
    /\ [](\A c \in children : c.status = None \/ c.status = first)
    /\ [][\A c \in children : \A d \in children' :
            /\ c.status # None => d.status = c.status
            /\ (c.status = None /\ d.status # None) =>
                  /\ ret'.op \in {"wait", "try_wait"}
                  /\ ret' = Returned(ret'.op, Ok(d.status))]_vars

C17_Witness ==
    /\ \E c \in children : c.status # None /\ c.status = first
    /\ atCall # None
    /\ ret.op = "try_wait"
    /\ decoy.state = "running"
    /\ decoy.isChild

\* C18: an operation issues PID-keyed OS calls only on a handle that has no
\* descriptor and whose status was absent when the operation was called (all
\* its OS calls are then PID-keyed); an operation called on a handle that has
\* collected its process issues no OS call, so the process that later got
\* the pid is never collected or signalled.
C18_PidKeyedCalls ==
    /\ pidcalls > 0 =>
          /\ IsUnix
          /\ atCall = None
          /\ \A c \in children \cup dropped : c.descriptor = None
          /\ pidcalls = ncalls
    /\ atCall # None => ncalls = 0 /\ pidcalls = 0
    /\ decoy.state \notin {"dying", "gone"}
    /\ decoy.term.how # "signal"

C18_Witness ==
    /\ cfg = "pidfd"
    /\ \E c \in children : c.descriptor = None /\ c.status # None
    /\ decoy.state = "zombie"
    /\ decoy.isChild
    /\ ret.op = "wait"
    /\ atCall # None
    /\ later

\* C19: a wait() or try_wait() that returns an OS error, and a try_wait()
\* that finds the process still running, leave the handle as it was, with
\* its status absent; and every operation called with the status absent and
\* returned has queried the OS.
C19_FailureLeavesHandle ==
    /\ [][(/\ ret'.op \in {"wait", "try_wait"}
           /\ (ret'.tag = "Err" \/ ret' = Returned("try_wait", Ok(None)))) =>
          \A c \in children : \A d \in children' : d = c /\ c.status = None]_vars
    /\ []((ret.op \in {"wait", "try_wait", "kill"} /\ ret.tag # "pending" /\ atCall = None)
              => ncalls >= 1)

C19_Witness ==
    /\ ret = Returned("wait", Err("ECHILD"))
    /\ \E c \in children : c.status = None
    /\ proc.state = "gone"

\* C20: a kill() called with the status absent on a process that has already
\* finished by itself returns Ok(()) on every backend and leaves the status
\* absent, and a wait() after it returns the status the process finished
\* with.
C20_KillAfterExit ==
    /\ (ret.op = "kill" /\ atCall = None /\ seen = "zombie" /\ ~forced) =>
          /\ ret = Returned("kill", Ok(None))
          /\ ~HasCached
    /\ postmortem =>
          /\ ~forced
          /\ (ret.op = "wait" /\ ret.tag # "pending") =>
                ret = Returned("wait", Ok(Some(ExitStatus(proc.term))))

C20_Witness ==
    /\ cfg = "win"
    /\ postmortem
    /\ ret = Returned("wait", Ok(Some(42)))
    /\ atCall = None

\* C21: the handle-table query loop of the cloned-process backend ends: a
\* too-small status is not returned as an error but makes the loop query
\* again with the buffer at the size the OS reported, which is larger; the
\* loop ends with the snapshot on STATUS_SUCCESS and with an error on an
\* error status; and no status makes the loop query again with a buffer
\* that has not grown.
TooSmallStatuses ==
    {"STATUS_INFO_LENGTH_MISMATCH", "STATUS_BUFFER_TOO_SMALL", "STATUS_BUFFER_OVERFLOW"}

C21_QueryLoopEnds ==
    /\ [](cfg = "win" =>
            /\ qstatus \in TooSmallStatuses =>
                  fpc = "query" /\ buf = Len(pre) /\ flows.original.variant = "none"
            /\ qstatus = "STATUS_SUCCESS" =>
                  fpc \in {"create", "done"} /\ snap = pre
            /\ qstatus \in ErrorStatuses =>
                  fpc = "done" /\ snap = <<>> /\ flows.original.err = qstatus
            /\ fpc = "query" => qstatus \in TooSmallStatuses)
    /\ [][(fpc' = "query" /\ <<fpc, qstatus, buf>>' # <<fpc, qstatus, buf>>) => buf' > buf]_vars

====
